---- MODULE Spec2Model ----
(***************************************************************************)
(* A model of lyricist.py: the Artist / Song registries and object graph,  *)
(* the JSON snapshot (save / load), the lyric fetch and its normalisation, *)
(* the lyric search and the artist-id resolver.                            *)
(*                                                                         *)
(* Python objects live on two heaps (artistObjs, songObjs); a reference is *)
(* an index into its heap, so "the identical object" is "the same index".  *)
(* A text is a sequence of code points; a code point is written as the     *)
(* one-character string it is, or as "U+XXXX" for a non-ASCII one.         *)
(***************************************************************************)
EXTENDS Integers, Sequences, FiniteSets, TLC

VARIABLES
    artistObjs,      \* heap of Artist objects, in creation order
    songObjs,        \* heap of Song objects, in creation order
    Artist_artists,  \* Artist._artists : artist id -> reference
    Song_songs,      \* Song._songs     : song id   -> reference
    files,           \* save_dir        : artist id -> decoded JSON document
    requests,        \* web requests issued for lyrics, per song url
    ret,             \* the last call: its name, arguments and result
    seenArtist,      \* history: artist id -> first record passed to from_data
    seenSong,        \* history: song id   -> first record passed to from_data
    savedHere,       \* history: artist ids saved by the running process
    snapshot,        \* history: artist id -> what its songs were when last saved
    resets           \* history: times load_artist put an absent lyrics value
                     \*          over a present one, per song url

vars == <<artistObjs, songObjs, Artist_artists, Song_songs, files, requests,
          ret, seenArtist, seenSong, savedHere, snapshot, resets>>

----------------------------------------------------------------------------
(* Bounds *)

\* longest featured_artists list of an input record
MaxFeatured == 1

ArtistIds == {1, 2}
SongIds   == {1, 2}

----------------------------------------------------------------------------
(* Texts *)

\* unicodedata.normalize("NFKD", .) on one code point: U+FB01 (the fi
\* ligature) decomposes to "fi", U+2005 (four-per-em space) to a space.
NFKDChar(c) ==
    IF c = "U+FB01" THEN <<"f", "i">>
    ELSE IF c = "U+2005" THEN <<" ">>
    ELSE <<c>>

RECURSIVE NFKD(_)
NFKD(s) == IF s = <<>> THEN <<>> ELSE NFKDChar(Head(s)) \o NFKD(Tail(s))


\* the character classes of the regular expressions: \w and \s
IsWord(c)  == c \in {"a", "b", "f", "i", "x", "y", "A", "U+FB01"}
IsSpace(c) == c \in {" ", "\n", "U+2005"}

\* re.sub(r"[^\w\s]", "", string)
RECURSIVE remove_punctuation(_)
remove_punctuation(string) ==
    IF string = <<>> THEN <<>>
    ELSE LET c == Head(string)
         IN  (IF IsWord(c) \/ IsSpace(c) THEN <<c>> ELSE <<>>)
                 \o remove_punctuation(Tail(string))

\* str.casefold on one code point
CasefoldChar(c) ==
    IF c = "A" THEN <<"a">>
    ELSE IF c = "U+FB01" THEN <<"f", "i">>
    ELSE <<c>>

RECURSIVE casefold(_)
casefold(s) == IF s = <<>> THEN <<>> ELSE CasefoldChar(Head(s)) \o casefold(Tail(s))

\* where the match of \[.*?\]\n that starts at i ends (at its newline), or 0:
\* the nearest "]" after the "[" at i that a newline follows, with no newline
\* between the two (. matches no newline)
HeaderEnd(s, i) ==
    IF s[i] # "[" THEN 0
    ELSE LET ends == {j \in (i + 1)..(Len(s) - 1) :
                         /\ s[j] = "]"
                         /\ s[j + 1] = "\n"
                         /\ \A k \in (i + 1)..(j - 1) : s[k] # "\n"}
         IN  IF ends = {} THEN 0
             ELSE 1 + CHOOSE j \in ends : \A k \in ends : j <= k

\* re.sub(r"(\[.*?\])\n{1}", "", lyrics), scanning from index i
RECURSIVE RemoveHeadersFrom(_, _)
RemoveHeadersFrom(s, i) ==
    IF i > Len(s) THEN <<>>
    ELSE LET e == HeaderEnd(s, i)
         IN  IF e # 0 THEN RemoveHeadersFrom(s, e + 1)
             ELSE <<s[i]>> \o RemoveHeadersFrom(s, i + 1)

RemoveHeaders(s) == RemoveHeadersFrom(s, 1)

\* lyrics.replace("\n\n", "\n"): one pass, left to right, no overlaps
RECURSIVE ReplaceDoubleNewline(_)
ReplaceDoubleNewline(s) ==
    IF s = <<>> THEN <<>>
    ELSE IF Len(s) >= 2 /\ s[1] = "\n" /\ s[2] = "\n"
         THEN <<"\n">> \o ReplaceDoubleNewline(Tail(Tail(s)))
         ELSE <<Head(s)>> \o ReplaceDoubleNewline(Tail(s))

\* the lines of get_song_lyrics that turn the container's text into lyrics
NormalizeLyrics(text) ==
    casefold(remove_punctuation(ReplaceDoubleNewline(RemoveHeaders(NFKD(text)))))

\* "sub in s" for two str
Contains(s, sub) ==
    \E i \in 0..(Len(s) - Len(sub)) :
        \A k \in 1..Len(sub) : s[i + k] = sub[k]

----------------------------------------------------------------------------
(* Raw records (the dicts of the Genius API) *)

ArtistNames == {<<"x">>, <<"y">>}
ArtistUrls  == [n \in ArtistNames |-> <<"/">> \o n]

ArtistRecords ==
    {[id |-> i, name |-> n, url |-> ArtistUrls[n]] : i \in ArtistIds, n \in ArtistNames}

\* the records of primary and of featured artists: one name each, not the same
PrimaryRecords  == {r \in ArtistRecords : r.name = <<"x">>}
FeaturedRecords == {r \in ArtistRecords : r.name = <<"y">>}

RECURSIVE SeqsUpTo(_, _)
SeqsUpTo(S, n) ==
    IF n = 0 THEN {<<>>}
    ELSE LET shorter == SeqsUpTo(S, n - 1)
         IN  shorter \cup {Append(q, e) : q \in {p \in shorter : Len(p) = n - 1}, e \in S}

\* a title already in NFKD form and one that is not
SongTitles == {<<"a">>, <<"U+FB01">>}

SongRecords ==
    {[id |-> i, title |-> t, full_title |-> t \o <<" ">> \o p.name,
      url |-> <<"/">> \o t, primary_artist |-> p, featured_artists |-> f] :
        i \in SongIds, t \in SongTitles, p \in PrimaryRecords,
        f \in SeqsUpTo(FeaturedRecords, MaxFeatured)}

\* the id, name and url of a dict, whatever other keys it has
ArtistKeys(d) == [id |-> d.id, name |-> d.name, url |-> d.url]

RECURSIVE Ids(_)
Ids(ds) == IF ds = <<>> THEN <<>> ELSE <<Head(ds).id>> \o Ids(Tail(ds))

\* what a song dict says of the song: its own keys, and who its artists are
SongKeys(d) ==
    [id |-> d.id, title |-> d.title, full_title |-> d.full_title, url |-> d.url,
     primary_artist |-> d.primary_artist.id,
     featured_artists |-> Ids(d.featured_artists)]

\* Song.lyrics: None (absent) or a str
None == [has |-> FALSE, text |-> <<>>]
Str(t) == [has |-> TRUE, text |-> t]

----------------------------------------------------------------------------
(* The registries: R = [A, S, ai, si] is the pair of heaps and the two     *)
(* class-level dicts; an operation returns [R, ret].                       *)

(* seenA and seenS log, per id, the first record a from_data call was     *)
(* given and the reference that call returned.                             *)

Registry ==
    [A |-> artistObjs, S |-> songObjs, ai |-> Artist_artists, si |-> Song_songs,
     seenA |-> seenArtist, seenS |-> seenSong]

EmptyRegistry ==
    [A |-> <<>>, S |-> <<>>, ai |-> <<>>, si |-> <<>>, seenA |-> <<>>, seenS |-> <<>>]

Log(seen, id_, data, ref) ==
    IF id_ \in DOMAIN seen THEN seen ELSE (id_ :> [data |-> data, ref |-> ref]) @@ seen

\* Artist.from_data without the look-up in _artists
Artist_from_data_NoLookup(R, data) ==
    LET id_ == data.id
        artist == [id |-> id_, name |-> data.name, url |-> data.url,
                   songs |-> <<>>, featured_on |-> <<>>]
        ref == Len(R.A) + 1
    IN  [R |-> [R EXCEPT !.A = Append(R.A, artist),
                         !.ai = (id_ :> ref) @@ R.ai,
                         !.seenA = Log(R.seenA, id_, ArtistKeys(data), ref)],
         ret |-> ref]

\* Artist.from_data
Artist_from_data(R, data) ==
    LET id_ == data.id IN
    IF id_ \in DOMAIN R.ai
    THEN [R |-> [R EXCEPT !.seenA = Log(R.seenA, id_, ArtistKeys(data), R.ai[id_])],
          ret |-> R.ai[id_]]
    ELSE LET artist == [id |-> id_, name |-> data.name, url |-> data.url,
                        songs |-> <<>>, featured_on |-> <<>>]
             ref == Len(R.A) + 1
         IN  [R |-> [R EXCEPT !.A = Append(R.A, artist),
                              !.ai = (id_ :> ref) @@ R.ai,
                              !.seenA = Log(R.seenA, id_, ArtistKeys(data), ref)],
              ret |-> ref]

\* the loop of Song.from_data over data["featured_artists"]
RECURSIVE FeaturedFromData(_, _, _)
FeaturedFromData(R, datas, featured_artists) ==
    IF datas = <<>> THEN [R |-> R, ret |-> featured_artists]
    ELSE LET r == Artist_from_data(R, Head(datas))
         IN  FeaturedFromData(r.R, Tail(datas), Append(featured_artists, r.ret))

\* that loop, leaving out an artist the song is already under
RECURSIVE AppendFeaturedOn_Once(_, _, _)
AppendFeaturedOn_Once(A, featured_artists, song) ==
    IF featured_artists = <<>> THEN A
    ELSE LET a == Head(featured_artists)
             seen == \E i \in DOMAIN A[a].featured_on : A[a].featured_on[i] = song
         IN  AppendFeaturedOn_Once(
                 IF seen THEN A
                 ELSE [A EXCEPT ![a].featured_on = Append(A[a].featured_on, song)],
                 Tail(featured_artists), song)

\* the loop of Song.from_data appending the song to each featured_on
RECURSIVE AppendFeaturedOn(_, _, _)
AppendFeaturedOn(A, featured_artists, song) ==
    IF featured_artists = <<>> THEN A
    ELSE LET a == Head(featured_artists)
         IN  AppendFeaturedOn(
                 [A EXCEPT ![a].featured_on = Append(A[a].featured_on, song)],
                 Tail(featured_artists), song)

\* Song.from_data
Song_from_data(R, data) ==
    LET id_ == data.id IN
    IF id_ \in DOMAIN R.si
    THEN [R |-> [R EXCEPT !.seenS = Log(R.seenS, id_, SongKeys(data), R.si[id_])],
          ret |-> R.si[id_]]
    ELSE LET r1 == Artist_from_data(R, data.primary_artist)
             r2 == FeaturedFromData(r1.R, data.featured_artists, <<>>)
             song == [id |-> id_, title |-> NFKD(data.title),
                      full_title |-> NFKD(data.full_title), url |-> data.url,
                      artist |-> r1.ret, featured_artists |-> r2.ret,
                      lyrics |-> None]
             ref == Len(r2.R.S) + 1
             A1 == [r2.R.A EXCEPT ![r1.ret].songs = Append(r2.R.A[r1.ret].songs, ref)]
             A2 == AppendFeaturedOn(A1, r2.ret, ref)
         IN  [R |-> [A |-> A2, S |-> Append(r2.R.S, song),
                     ai |-> r2.R.ai, si |-> (id_ :> ref) @@ r2.R.si,
                     seenA |-> r2.R.seenA,
                     seenS |-> Log(R.seenS, id_, SongKeys(data), ref)],
              ret |-> ref]

----------------------------------------------------------------------------
(* Lyrics *)

\* what the request for a song's page and the parse of it can come to: the
\* request raises, the page has no lyrics container (IndexError), or the
\* container's text
RequestError == [kind |-> "request_error", text |-> <<>>]
NoContainer  == [kind |-> "no_container", text |-> <<>>]
Page(text)   == [kind |-> "text", text |-> text]

\* the body of the try of get_song_lyrics: it raises (requests' error, the
\* IndexError of [0] on an empty selection) or comes to the lyrics
FetchLyrics(outcome) ==
    IF outcome.kind = "text"
    THEN [raised |-> FALSE, lyrics |-> Str(NormalizeLyrics(outcome.text))]
    ELSE [raised |-> TRUE, lyrics |-> None]

\* get_song_lyrics without the look at song.lyrics
get_song_lyrics_NoCache(L, song, outcome) ==
    LET try == FetchLyrics(outcome)
        lyrics == IF try.raised THEN Str(<<>>) ELSE try.lyrics
    IN  [L |-> [S |-> [L.S EXCEPT ![song].lyrics = lyrics],
                requests |-> [L.requests EXCEPT ![L.S[song].id] = @ + 1]],
         ret |-> lyrics, raised |-> FALSE]

\* get_song_lyrics with an except clause that lets the error through
get_song_lyrics_Raising(L, song, outcome) ==
    IF L.S[song].lyrics = None
    THEN LET try == FetchLyrics(outcome)
         IN  [L |-> [S |-> [L.S EXCEPT ![song].lyrics = try.lyrics],
                     requests |-> [L.requests EXCEPT ![L.S[song].id] = @ + 1]],
              ret |-> try.lyrics, raised |-> try.raised]
    ELSE [L |-> L, ret |-> L.S[song].lyrics, raised |-> FALSE]

\* Lyricist.get_song_lyrics: L = [S, requests], the song heap and the count of
\* page requests per song id
get_song_lyrics(L, song, outcome) ==
    IF L.S[song].lyrics = None
    THEN LET try == FetchLyrics(outcome)
             lyrics == IF try.raised THEN Str(<<>>) ELSE try.lyrics
         IN  [L |-> [S |-> [L.S EXCEPT ![song].lyrics = lyrics],
                     requests |-> [L.requests EXCEPT ![L.S[song].id] = @ + 1]],
              ret |-> lyrics, raised |-> FALSE]
    ELSE [L |-> L, ret |-> L.S[song].lyrics, raised |-> FALSE]

\* the loop of Lyricist.get_artist_lyrics over the rest of the chain;
\* outcomes[s] is what the fetch of song s comes to, should it be made;
\* an error of get_song_lyrics ends the loop
RECURSIVE GetLyricsLoop(_, _, _)
GetLyricsLoop(L, chain, outcomes) ==
    IF chain = <<>> THEN [L |-> L, raised |-> FALSE]
    ELSE LET r == get_song_lyrics(L, Head(chain), outcomes[Head(chain)])
         IN  IF r.raised THEN [L |-> r.L, raised |-> TRUE]
             ELSE GetLyricsLoop(r.L, Tail(chain), outcomes)

\* Lyricist.get_artist_lyrics
get_artist_lyrics(A, L, artist, outcomes) ==
    GetLyricsLoop(L, A[artist].songs \o A[artist].featured_on, outcomes)

----------------------------------------------------------------------------
(* Search *)

\* the list comprehension of search_artist_lyrics over the queries
RECURSIVE NormalizeQueries(_)
NormalizeQueries(lyrics) ==
    IF lyrics = <<>> THEN <<>>
    ELSE <<remove_punctuation(casefold(Head(lyrics)))>> \o NormalizeQueries(Tail(lyrics))

\* has_lyrics([lyric in song.lyrics for lyric in lyrics])
HasLyrics(match_all, text, lyrics) ==
    IF match_all
    THEN \A i \in DOMAIN lyrics : Contains(text, lyrics[i])
    ELSE \E i \in DOMAIN lyrics : Contains(text, lyrics[i])

\* the loop of search_artist_lyrics; "lyric in None" is a TypeError
RECURSIVE SearchLoop(_, _, _, _, _)
SearchLoop(S, all_songs, lyrics, match_all, matches) ==
    IF all_songs = <<>> THEN [raised |-> FALSE, value |-> matches]
    ELSE LET song == Head(all_songs) IN
         IF S[song].lyrics = Str(<<>>)
         THEN SearchLoop(S, Tail(all_songs), lyrics, match_all, matches)
         ELSE IF S[song].lyrics = None /\ lyrics # <<>>
         THEN [raised |-> TRUE, value |-> <<>>]
         ELSE SearchLoop(S, Tail(all_songs), lyrics, match_all,
                         IF HasLyrics(match_all, S[song].lyrics.text, lyrics)
                         THEN Append(matches, song) ELSE matches)

\* the loop without the skip of a song whose lyrics are ""
RECURSIVE SearchLoop_NoSkip(_, _, _, _, _)
SearchLoop_NoSkip(S, all_songs, lyrics, match_all, matches) ==
    IF all_songs = <<>> THEN [raised |-> FALSE, value |-> matches]
    ELSE LET song == Head(all_songs) IN
         IF S[song].lyrics = None /\ lyrics # <<>>
         THEN [raised |-> TRUE, value |-> <<>>]
         ELSE SearchLoop_NoSkip(S, Tail(all_songs), lyrics, match_all,
                         IF HasLyrics(match_all, S[song].lyrics.text, lyrics)
                         THEN Append(matches, song) ELSE matches)

\* the candidates of a search
AllSongs(A, artist, featured) ==
    IF featured THEN A[artist].songs \o A[artist].featured_on ELSE A[artist].songs

\* search_artist_lyrics with the loop without the skip
search_artist_lyrics_NoSkip(A, S, artist, lyrics, featured, match_all) ==
    SearchLoop_NoSkip(S, AllSongs(A, artist, featured),
               NormalizeQueries(IF lyrics.isstr THEN <<lyrics.str>> ELSE lyrics.list),
               match_all, <<>>)

\* Lyricist.search_artist_lyrics; lyrics is a str (lyrics.str) or a list of
\* str (lyrics.list)
search_artist_lyrics(A, S, artist, lyrics, featured, match_all) ==
    SearchLoop(S, AllSongs(A, artist, featured),
               NormalizeQueries(IF lyrics.isstr THEN <<lyrics.str>> ELSE lyrics.list),
               match_all, <<>>)

----------------------------------------------------------------------------
(* The resolver *)

\* the first of the artists whose name is name: its position, or 0
FirstNamed(artists, name) ==
    LET hits == {i \in DOMAIN artists : artists[i].name = name}
    IN  IF hits = {} THEN 0 ELSE CHOOSE i \in hits : \A k \in hits : i <= k

\* the first loop of get_artist_id, over the songs of the artist's page
RECURSIVE ScanSongs(_, _)
ScanSongs(songs, name) ==
    IF songs = <<>> THEN [found |-> FALSE, id |-> 0]
    ELSE LET song == Head(songs)
             f == FirstNamed(song.featured_artists, name)
         IN  IF song.primary_artist.name = name
             THEN [found |-> TRUE, id |-> song.primary_artist.id]
             ELSE IF f # 0
             THEN [found |-> TRUE, id |-> song.featured_artists[f].id]
             ELSE ScanSongs(Tail(songs), name)

\* the second loop of get_artist_id, over the hits of the search; its inner
\* loop reads the variable song, which the first loop left at the last song of
\* the page and did not bind at all when the page had no song
RECURSIVE ScanHits(_, _, _)
ScanHits(hits, songs, name) ==
    IF hits = <<>> THEN [kind |-> "ValueError", value |-> 0]
    ELSE LET primary_artist == Head(hits).result.primary_artist IN
         IF primary_artist.name = name
         THEN [kind |-> "return", value |-> primary_artist.id]
         ELSE IF songs = <<>>
         THEN [kind |-> "UnboundLocalError", value |-> 0]
         ELSE LET song == songs[Len(songs)]
                  f == FirstNamed(song.featured_artists, name)
              IN  IF f # 0
                  THEN [kind |-> "return", value |-> song.featured_artists[f].id]
                  ELSE ScanHits(Tail(hits), songs, name)

\* Lyricist.get_artist_id from the songs of the page on: name is the name
\* get_artist_genius_name gave, songs the "artist_songs" of the page, hits the
\* hits the search request gives if it is made
get_artist_id(name, songs, hits) ==
    LET first == ScanSongs(songs, name) IN
    IF first.found
    THEN [kind |-> "return", value |-> first.id, searched |-> FALSE]
    ELSE LET second == ScanHits(hits, songs, name)
         IN  [kind |-> second.kind, value |-> second.value, searched |-> TRUE]

----------------------------------------------------------------------------
(* Persistence *)

\* Artist.to_dict
Artist_to_dict(A, artist) ==
    [id |-> A[artist].id, name |-> A[artist].name, url |-> A[artist].url]

RECURSIVE ArtistDicts(_, _)
ArtistDicts(A, artists) ==
    IF artists = <<>> THEN <<>>
    ELSE <<Artist_to_dict(A, Head(artists))>> \o ArtistDicts(A, Tail(artists))

\* Song.to_dict writing "lyrics": self.lyrics or ""
Song_to_dict_OrEmpty(A, S, song) ==
    [id |-> S[song].id, title |-> S[song].title, full_title |-> S[song].full_title,
     url |-> S[song].url,
     primary_artist |-> Artist_to_dict(A, S[song].artist),
     featured_artists |-> ArtistDicts(A, S[song].featured_artists),
     lyrics |-> IF S[song].lyrics = None THEN Str(<<>>) ELSE S[song].lyrics]

\* Song.to_dict
Song_to_dict(A, S, song) ==
    [id |-> S[song].id, title |-> S[song].title, full_title |-> S[song].full_title,
     url |-> S[song].url,
     primary_artist |-> Artist_to_dict(A, S[song].artist),
     featured_artists |-> ArtistDicts(A, S[song].featured_artists),
     lyrics |-> S[song].lyrics]

RECURSIVE SongDicts(_, _, _)
SongDicts(A, S, songs) ==
    IF songs = <<>> THEN <<>>
    ELSE <<Song_to_dict(A, S, Head(songs))>> \o SongDicts(A, S, Tail(songs))

\* Artist.save: the document json.dump writes (json.load gives it back)
Artist_save(A, S, artist, now) ==
    [id |-> A[artist].id, name |-> A[artist].name, url |-> A[artist].url,
     time |-> now,
     songs |-> SongDicts(A, S, A[artist].songs),
     featured_on |-> SongDicts(A, S, A[artist].featured_on)]

\* the loop of Lyricist.load_artist; rs counts, per song id, the times an
\* absent lyrics value is put over a present one
RECURSIVE LoadSongs(_, _, _)
LoadSongs(R, rs, song_jsons) ==
    IF song_jsons = <<>> THEN [R |-> R, resets |-> rs]
    ELSE LET song_json == Head(song_jsons)
             r == Song_from_data(R, song_json)
             old == r.R.S[r.ret].lyrics
             lost == old # None /\ song_json.lyrics = None
         IN  LoadSongs([r.R EXCEPT !.S[r.ret].lyrics = song_json.lyrics],
                       IF lost THEN [rs EXCEPT ![song_json.id] = @ + 1] ELSE rs,
                       Tail(song_jsons))

\* Lyricist.load_artist
load_artist(R, rs, artist_json) ==
    LET r == Artist_from_data(R, artist_json)
        l == LoadSongs(r.R, rs, artist_json.songs \o artist_json.featured_on)
    IN  [R |-> l.R, resets |-> l.resets, ret |-> r.ret]

----------------------------------------------------------------------------
(* The program: one action per call of the library *)

\* load_artist may un-set a song's lyrics this many times
MaxResets == 1
\* time.time()
Times == {0}

ZeroPerSong == [i \in SongIds |-> 0]

\* a process starts: the class-level dicts are empty, no page was requested
InitRest ==
    /\ artistObjs = <<>>
    /\ songObjs = <<>>
    /\ Artist_artists = <<>>
    /\ Song_songs = <<>>
    /\ files = <<>>
    /\ requests = ZeroPerSong
    /\ seenArtist = <<>>
    /\ seenSong = <<>>
    /\ savedHere = {}
    /\ snapshot = <<>>
    /\ resets = ZeroPerSong

\* no file is in save_dir and no call was made
Init ==
    /\ ret = [op |-> "start"]
    /\ InitRest

\* what a Song object holds: its fields, the ids of its artists, its lyrics
RECURSIVE ArtistIdsOf(_)
ArtistIdsOf(refs) ==
    IF refs = <<>> THEN <<>> ELSE <<artistObjs[Head(refs)].id>> \o ArtistIdsOf(Tail(refs))

SongFacts(song) ==
    [id |-> songObjs[song].id, title |-> songObjs[song].title,
     full_title |-> songObjs[song].full_title, url |-> songObjs[song].url,
     primary_artist |-> artistObjs[songObjs[song].artist].id,
     featured_artists |-> ArtistIdsOf(songObjs[song].featured_artists),
     lyrics |-> songObjs[song].lyrics]

RECURSIVE Facts(_)
Facts(songs) == IF songs = <<>> THEN <<>> ELSE <<SongFacts(Head(songs))>> \o Facts(Tail(songs))

SetRegistry(R) ==
    /\ artistObjs' = R.A
    /\ songObjs' = R.S
    /\ Artist_artists' = R.ai
    /\ Song_songs' = R.si
    /\ seenArtist' = R.seenA
    /\ seenSong' = R.seenS

\* one call of Artist.from_data(data) (Lyricist.get_artist_from_id makes it)
FromDataArtist(datas) ==
    \E data \in datas :
        LET r == Artist_from_data(Registry, data)
        IN  /\ SetRegistry(r.R)
            /\ ret' = [op |-> "Artist.from_data", id |-> data.id, value |-> r.ret,
                        conflict |-> /\ data.id \in DOMAIN seenArtist
                                     /\ seenArtist[data.id].data # ArtistKeys(data)]
            /\ UNCHANGED <<files, requests, savedHere, snapshot, resets>>

\* one call of Song.from_data(data) (Lyricist.get_artist_songs makes one for
\* each song of each page)
FromDataSong(datas) ==
    \E data \in datas :
        LET r == Song_from_data(Registry, data)
        IN  /\ SetRegistry(r.R)
            /\ ret' = [op |-> "Song.from_data", id |-> data.id, value |-> r.ret,
                        conflict |-> /\ data.id \in DOMAIN seenSong
                                     /\ seenSong[data.id].data # SongKeys(data)]
            /\ UNCHANGED <<files, requests, savedHere, snapshot, resets>>

\* Lyricist.get_song_lyrics(song); the first conjunct caps the request count
GetSongLyrics(outs) ==
    \E song \in DOMAIN songObjs, outcome \in outs :
        LET r == get_song_lyrics([S |-> songObjs, requests |-> requests], song, outcome)
        IN  /\ r.L.requests[songObjs[song].id] <= 1 + MaxResets
            /\ songObjs' = r.L.S
            /\ requests' = r.L.requests
            /\ ret' = [op |-> "get_song_lyrics", song |-> song, value |-> r.ret,
                       raised |-> r.raised,
                       hit |-> songObjs[song].lyrics # None,
                       failed |-> songObjs[song].lyrics = None /\ outcome.kind # "text"]
            /\ UNCHANGED <<artistObjs, Artist_artists, Song_songs, files,
                           seenArtist, seenSong, savedHere, snapshot, resets>>

\* Lyricist.get_artist_lyrics(artist); the first conjunct caps the request
\* counts
GetArtistLyrics(outs) ==
    \E artist \in DOMAIN artistObjs, outcomes \in [DOMAIN songObjs -> outs] :
        LET r == get_artist_lyrics(artistObjs, [S |-> songObjs, requests |-> requests],
                                   artist, outcomes)
        IN  /\ \A i \in SongIds : r.L.requests[i] <= 1 + MaxResets
            /\ songObjs' = r.L.S
            /\ requests' = r.L.requests
            /\ ret' = [op |-> "get_artist_lyrics", artist |-> artist,
                       raised |-> r.raised,
                       failed |-> {song \in DOMAIN songObjs :
                                      /\ songObjs[song].lyrics = None
                                      /\ r.L.S[song].lyrics # None
                                      /\ outcomes[song].kind # "text"}]
            /\ UNCHANGED <<artistObjs, Artist_artists, Song_songs, files,
                           seenArtist, seenSong, savedHere, snapshot, resets>>

\* Lyricist.save_artist(artist, save_dir), for an artist whose id is in ids
SaveArtist(ids) ==
    \E artist \in DOMAIN artistObjs, now \in Times :
        LET id_ == artistObjs[artist].id
        IN  /\ id_ \in ids
            /\ files' = (id_ :> Artist_save(artistObjs, songObjs, artist, now)) @@ files
            /\ savedHere' = savedHere \cup {id_}
            /\ snapshot' = (id_ :> [songs |-> Facts(artistObjs[artist].songs),
                                    featured_on |-> Facts(artistObjs[artist].featured_on)])
                                @@ snapshot
            /\ ret' = [op |-> "save_artist", artist |-> artist]
            /\ UNCHANGED <<artistObjs, songObjs, Artist_artists, Song_songs, requests,
                           seenArtist, seenSong, resets>>

\* Lyricist.load_artist(artist_id, save_dir), the file being there; the first
\* conjunct caps the count of un-set lyrics
LoadArtist ==
    \E artist_id \in DOMAIN files :
        LET r == load_artist(Registry, resets, files[artist_id])
        IN  /\ \A i \in SongIds : r.resets[i] <= MaxResets
            /\ SetRegistry(r.R)
            /\ resets' = r.resets
            /\ ret' = [op |-> "load_artist", artist_id |-> artist_id, value |-> r.ret,
                       fresh |-> artistObjs = <<>> /\ songObjs = <<>>,
                       here |-> artist_id \in savedHere]
            /\ UNCHANGED <<files, requests, savedHere, snapshot>>

\* Lyricist.search_artist_lyrics(artist, lyrics, featured, match_all)
SearchArtistLyrics(args) ==
    \E artist \in DOMAIN artistObjs, lyrics \in args, featured \in BOOLEAN,
       match_all \in BOOLEAN :
        LET r == search_artist_lyrics(artistObjs, songObjs, artist, lyrics,
                                      featured, match_all)
        IN  /\ ret' = [op |-> "search_artist_lyrics", artist |-> artist,
                       lyrics |-> lyrics, featured |-> featured,
                       match_all |-> match_all, raised |-> r.raised,
                       value |-> r.value]
            /\ UNCHANGED <<artistObjs, songObjs, Artist_artists, Song_songs, files,
                           requests, seenArtist, seenSong, savedHere, snapshot, resets>>

\* the process ends and another starts: the class-level dicts are empty
\* again, the files of save_dir are still there
Restart ==
    /\ artistObjs # <<>>
    /\ SetRegistry(EmptyRegistry)
    /\ requests' = ZeroPerSong
    /\ resets' = ZeroPerSong
    /\ savedHere' = {}
    /\ ret' = [op |-> "start"]
    /\ UNCHANGED <<files, snapshot>>

\* The registries under every record of the API
Next ==
    \/ FromDataArtist(ArtistRecords)
    \/ FromDataSong(SongRecords)

Spec == Init /\ [][Next]_vars

\* records that disagree about songs 1 and 2 and about the two artists' names:
\* a title that is not in NFKD form, an artist featured twice, a primary artist
\* who is also featured
Rec(i, n) == [id |-> i, name |-> n, url |-> ArtistUrls[n]]

SongRec(i, t, p, f) ==
    [id |-> i, title |-> t, full_title |-> t \o <<" ">> \o p.name,
     url |-> <<"/">> \o t, primary_artist |-> p, featured_artists |-> f]

PersistSongRecords ==
    { SongRec(1, <<"U+FB01">>, Rec(1, <<"x">>), <<Rec(2, <<"y">>)>>),
      SongRec(1, <<"a">>, Rec(2, <<"x">>), <<>>),
      SongRec(2, <<"a">>, Rec(2, <<"y">>), <<Rec(1, <<"x">>), Rec(1, <<"y">>)>>),
      SongRec(2, <<"U+FB01">>, Rec(1, <<"y">>), <<Rec(1, <<"x">>)>>) }

PersistOutcomes == {RequestError, Page(<<"[", "x", "]", "\n", "A", "!">>)}

\* The registries and the snapshots of save_dir, over several processes
NextPersist ==
    \/ FromDataSong(PersistSongRecords)
    \/ GetSongLyrics(PersistOutcomes)
    \/ SaveArtist({1})
    \/ LoadArtist
    \/ Restart

SpecPersist == Init /\ [][NextPersist]_vars

\* songs 1 and 2 with or without lyrics on their pages, under artist 1 or 2
LyricsSongRecords ==
    { SongRec(1, <<"a">>, Rec(1, <<"x">>), <<>>),
      SongRec(2, <<"a">>, Rec(1, <<"x">>), <<Rec(1, <<"x">>)>>),
      SongRec(2, <<"a">>, Rec(2, <<"y">>), <<Rec(1, <<"x">>)>>),
      SongRec(1, <<"a">>, Rec(2, <<"y">>), <<Rec(1, <<"x">>)>>) }

LyricsOutcomes == {RequestError, NoContainer, Page(<<"A", "!">>)}

\* The lyric fetches, with the snapshots that carry lyrics between processes
NextLyrics ==
    \/ FromDataSong(LyricsSongRecords)
    \/ GetSongLyrics(LyricsOutcomes)
    \/ GetArtistLyrics(LyricsOutcomes)
    \/ SaveArtist({1})
    \/ LoadArtist
    \/ Restart

SpecLyrics == Init /\ [][NextLyrics]_vars

\* longest list of queries of a search
MaxQueries == 2

\* the pages of the searched songs: lyrics "", "b" and "a b"
SearchOutcomes ==
    {NoContainer, Page(<<"b">>), Page(<<"[", "x", "]", "\n", "A", "!", " ", "b">>)}

\* queries that normalise to "a", to "b" and to ""
Queries == {<<"A", "!">>, <<"b">>, <<"!">>}

SearchArgs ==
    {[isstr |-> TRUE, str |-> q, list |-> <<>>] : q \in Queries}
        \cup {[isstr |-> FALSE, str |-> <<>>, list |-> l] :
                  l \in SeqsUpTo(Queries, MaxQueries)}

\* song 1 under artist 1, song 2 under artist 1 or 2 and featuring artist 1
SearchSongRecords ==
    { SongRec(1, <<"a">>, Rec(1, <<"x">>), <<>>),
      SongRec(2, <<"a">>, Rec(1, <<"x">>), <<Rec(1, <<"x">>)>>),
      SongRec(2, <<"a">>, Rec(2, <<"y">>), <<Rec(1, <<"x">>)>>) }

\* The searches of an artist's songs
NextSearch ==
    \/ FromDataSong(SearchSongRecords)
    \/ GetArtistLyrics(SearchOutcomes)
    \/ SearchArtistLyrics(SearchArgs)

SpecSearch == Init /\ [][NextSearch]_vars

\* longest text of a lyrics container
MaxLen == 3

TextChars == {"A", "\n", "!", "[", "]"}

\* the text of a lyrics container is normalised, and so is what comes of it
Normalize ==
    /\ ret.op \in {"text", "NormalizeLyrics"}
    /\ LET text == IF ret.op = "text" THEN ret.text ELSE ret.value
       IN  ret' = [op |-> "NormalizeLyrics", text |-> text,
                   value |-> NormalizeLyrics(text),
                   again |-> ret.op = "NormalizeLyrics"]
    /\ UNCHANGED <<artistObjs, songObjs, Artist_artists, Song_songs, files, requests,
                   seenArtist, seenSong, savedHere, snapshot, resets>>

InitNormalize ==
    /\ ret \in {[op |-> "text", text |-> t] : t \in SeqsUpTo(TextChars, MaxLen)}
    /\ InitRest

NextNormalize == Normalize

\* The normalisation of lyrics, over every short text
SpecNormalize == InitNormalize /\ [][NextNormalize]_vars

\* most songs of an artist's page
MaxPageSongs == 2
\* most hits of a search
MaxHits == 2
\* most featured artists of a song of the page or of a hit
MaxCredits == 1

CanonicalName == <<"x">>

\* the artists of the payloads: two of the canonical name, one of another
Credits ==
    {[name |-> <<"x">>, id |-> 1], [name |-> <<"y">>, id |-> 2],
     [name |-> <<"x">>, id |-> 3]}

PageSongs ==
    {[primary_artist |-> p, featured_artists |-> f] :
        p \in Credits, f \in SeqsUpTo(Credits, MaxCredits)}

Hits == {[result |-> song] : song \in PageSongs}

InitResolver ==
    /\ ret \in {[op |-> "payloads", name |-> CanonicalName, songs |-> songs,
                 hits |-> hits] :
                    songs \in SeqsUpTo(PageSongs, MaxPageSongs),
                    hits \in SeqsUpTo(Hits, MaxHits)}
    /\ InitRest

\* Lyricist.get_artist_id(name), the page and the search giving the payloads
GetArtistId ==
    /\ ret.op = "payloads"
    /\ LET r == get_artist_id(ret.name, ret.songs, ret.hits)
       IN  ret' = [op |-> "get_artist_id", name |-> ret.name, songs |-> ret.songs,
                   hits |-> ret.hits, kind |-> r.kind, value |-> r.value,
                   searched |-> r.searched]
    /\ UNCHANGED <<artistObjs, songObjs, Artist_artists, Song_songs, files, requests,
                   seenArtist, seenSong, savedHere, snapshot, resets>>

NextResolver == GetArtistId

\* The resolver, over every short page and search result
SpecResolver == InitResolver /\ [][NextResolver]_vars

----------------------------------------------------------------------------
(* Claims about the registries *)

Count(seq, x) == Cardinality({i \in DOMAIN seq : seq[i] = x})

IsPrefix(p, q) == Len(p) <= Len(q) /\ \A i \in DOMAIN p : p[i] = q[i]

\* one object per id on each heap, and the call just made returned the object
\* the first call for its id returned
OneObjectPerId ==
    /\ \A i, j \in DOMAIN artistObjs : artistObjs[i].id = artistObjs[j].id => i = j
    /\ \A i, j \in DOMAIN songObjs : songObjs[i].id = songObjs[j].id => i = j
    /\ ret.op = "Artist.from_data" => ret.value = seenArtist[ret.id].ref
    /\ ret.op = "Song.from_data" => ret.value = seenSong[ret.id].ref

\* every artist is as the first record for its id said
ArtistsAsFirstSeen ==
    \A id_ \in DOMAIN seenArtist :
        LET first == seenArtist[id_].data
            artist == artistObjs[seenArtist[id_].ref]
        IN  /\ Artist_artists[id_] = seenArtist[id_].ref
            /\ artist.id = first.id
            /\ artist.name = first.name
            /\ artist.url = first.url

\* every song has the url and the artists the first record for its id said
SongsAsFirstSeen ==
    \A id_ \in DOMAIN seenSong :
        LET first == seenSong[id_].data
            song == seenSong[id_].ref
        IN  /\ Song_songs[id_] = song
            /\ songObjs[song].id = first.id
            /\ songObjs[song].url = first.url
            /\ artistObjs[songObjs[song].artist].id = first.primary_artist
            /\ songObjs[song].artist = Artist_artists[first.primary_artist]
            /\ ArtistIdsOf(songObjs[song].featured_artists) = first.featured_artists
            /\ \A k \in DOMAIN first.featured_artists :
                   songObjs[song].featured_artists[k] = Artist_artists[first.featured_artists[k]]

\* C1, as stated: after any calls of Artist.from_data and Song.from_data, calls
\* for one id return the identical object, and its id, name or title,
\* full_title, url and artists are those of the first record seen for the id.
EntityIdentityVerbatim ==
    /\ OneObjectPerId
    /\ ArtistsAsFirstSeen
    /\ SongsAsFirstSeen
    /\ \A id_ \in DOMAIN seenSong :
           /\ songObjs[seenSong[id_].ref].title = seenSong[id_].data.title
           /\ songObjs[seenSong[id_].ref].full_title = seenSong[id_].data.full_title

\* C1, amended: calls for one id return the identical object, and its id, name,
\* url and artists are those of the first record seen for the id; a song's
\* title and full_title are the NFKD forms of that record's.
EntityIdentity ==
    /\ OneObjectPerId
    /\ ArtistsAsFirstSeen
    /\ SongsAsFirstSeen
    /\ \A id_ \in DOMAIN seenSong :
           /\ songObjs[seenSong[id_].ref].title = NFKD(seenSong[id_].data.title)
           /\ songObjs[seenSong[id_].ref].full_title = NFKD(seenSong[id_].data.full_title)

\* a record that disagrees with the first one for its id was passed to
\* Song.from_data, and the first one's title was not in NFKD form
EntityIdentityWitness ==
    /\ ret.op = "Song.from_data"
    /\ ret.conflict
    /\ seenSong[ret.id].data.title # NFKD(seenSong[ret.id].data.title)

\* each registered song is once under its primary artist's songs and under no
\* other artist's, and under an artist's featured_on as often as the artist is
\* among its featured_artists
Linked ==
    \A id_ \in DOMAIN Song_songs :
        LET song == Song_songs[id_] IN
        \A a \in DOMAIN artistObjs :
            /\ Count(artistObjs[a].songs, song) = (IF songObjs[song].artist = a THEN 1 ELSE 0)
            /\ Count(artistObjs[a].featured_on, song)
                   = Count(songObjs[song].featured_artists, a)

\* within a process, a call only appends to the two lists of an artist
OnlyAppended ==
    ret'.op # "start" =>
        \A a \in DOMAIN artistObjs :
            /\ a \in DOMAIN artistObjs'
            /\ IsPrefix(artistObjs[a].songs, artistObjs'[a].songs)
            /\ IsPrefix(artistObjs[a].featured_on, artistObjs'[a].featured_on)

\* C10: after any calls of Song.from_data, Artist.from_data and load_artist,
\* with repeated and conflicting records, every registered song is exactly once
\* in its primary artist's songs and in no other artist's, is in an artist's
\* featured_on as many times as the artist is in its featured_artists, and no
\* entry is ever removed from or reordered in either list.
LinkConsistency == []Linked /\ [][OnlyAppended]_vars

\* load_artist has run in a process that had already registered a song the
\* file disagrees about, and some song is twice under one artist's featured_on
LinkConsistencyWitness ==
    /\ ret.op = "load_artist"
    /\ ~ret.fresh
    /\ \E i \in DOMAIN files[ret.artist_id].songs :
           LET d == files[ret.artist_id].songs[i]
           IN  songObjs[Song_songs[d.id]].title # d.title
    /\ \E a \in DOMAIN artistObjs, song \in DOMAIN songObjs :
           Count(artistObjs[a].featured_on, song) = 2

----------------------------------------------------------------------------
(* Claims about the snapshots *)

\* C2: for an artist reached by any registry constructions and lyric fills,
\* save_artist and then load_artist (in the saving process, or as the first
\* call of a later one) reproduces, for every song in artist.songs and in
\* artist.featured_on, the song's id, title, full_title, url, primary artist
\* id, featured artist ids and lyrics value, absent and empty ones included.
RoundTrip ==
    (ret.op = "load_artist" /\ (ret.fresh \/ ret.here)) =>
        LET saved == snapshot[ret.artist_id]
            artist == artistObjs[ret.value]
        IN  /\ artist.id = ret.artist_id
            /\ \A i \in DOMAIN saved.songs :
                   \E k \in DOMAIN artist.songs :
                       SongFacts(artist.songs[k]) = saved.songs[i]
            /\ \A i \in DOMAIN saved.featured_on :
                   \E k \in DOMAIN artist.featured_on :
                       SongFacts(artist.featured_on[k]) = saved.featured_on[i]

\* a later process has loaded, as its first call, an artist saved with a song
\* without lyrics, a song with empty lyrics and a featured_on entry
RoundTripWitness ==
    /\ ret.op = "load_artist"
    /\ ret.fresh
    /\ ~ret.here
    /\ snapshot[ret.artist_id].featured_on # <<>>
    /\ \E i \in DOMAIN snapshot[ret.artist_id].songs :
           snapshot[ret.artist_id].songs[i].lyrics = None
    /\ \E i \in DOMAIN snapshot[ret.artist_id].songs :
           snapshot[ret.artist_id].songs[i].lyrics = Str(<<>>)

----------------------------------------------------------------------------
(* Claims about the lyrics *)

Chain(artist) == artistObjs[artist].songs \o artistObjs[artist].featured_on

\* the queries of the last search, as the search normalises them
QueriesOf(lyrics) ==
    LET given == IF lyrics.isstr THEN {lyrics.str}
                 ELSE {lyrics.list[i] : i \in DOMAIN lyrics.list}
    IN  {remove_punctuation(casefold(q)) : q \in given}

\* C3: for an artist whose candidate songs all have lyrics set, and any
\* queries, search_artist_lyrics returns exactly the candidates (artist.songs,
\* then artist.featured_on when featured) whose lyrics are not "" and contain
\* every normalized query (match_all) or at least one (otherwise), in the
\* candidates' order; a song with lyrics "" is in no result.
SearchResult ==
    ret.op = "search_artist_lyrics" =>
        LET candidates == IF ret.featured THEN Chain(ret.artist)
                          ELSE artistObjs[ret.artist].songs
            queries == QueriesOf(ret.lyrics)
            Matches(song) ==
                /\ songObjs[song].lyrics.text # <<>>
                /\ IF ret.match_all
                   THEN \A q \in queries : Contains(songObjs[song].lyrics.text, q)
                   ELSE \E q \in queries : Contains(songObjs[song].lyrics.text, q)
        IN  (\A i \in DOMAIN candidates : songObjs[candidates[i]].lyrics # None) =>
                /\ ~ret.raised
                /\ ret.value = SelectSeq(candidates, Matches)
                /\ \A i \in DOMAIN ret.value : songObjs[ret.value[i]].lyrics # Str(<<>>)

\* a search for two queries, one of them normalising to "", with match_all and
\* featured, found a song among candidates of which one has lyrics ""
SearchResultWitness ==
    /\ ret.op = "search_artist_lyrics"
    /\ ret.featured
    /\ ret.match_all
    /\ Len(ret.lyrics.list) = 2
    /\ <<>> \in QueriesOf(ret.lyrics)
    /\ artistObjs[ret.artist].featured_on # <<>>
    /\ \A i \in DOMAIN Chain(ret.artist) : songObjs[Chain(ret.artist)[i]].lyrics # None
    /\ \E i \in DOMAIN Chain(ret.artist) : songObjs[Chain(ret.artist)[i]].lyrics = Str(<<>>)
    /\ ret.value # <<>>

\* no more page requests for a song than one, and one more for each time
\* load_artist has put an absent lyrics value over a present one
AtMostOneRequest == \A id_ \in SongIds : requests[id_] <= 1 + resets[id_]

\* a call of get_song_lyrics or get_artist_lyrics leaves the lyrics that are set
\* as they are, requests no page for them and returns them
CacheHit ==
    ret'.op \in {"get_song_lyrics", "get_artist_lyrics"} =>
        \A song \in DOMAIN songObjs :
            songObjs[song].lyrics # None =>
                /\ songObjs'[song].lyrics = songObjs[song].lyrics
                /\ requests'[songObjs[song].id] = requests[songObjs[song].id]
                /\ (ret'.op = "get_song_lyrics" /\ ret'.song = song)
                       => ret'.value = songObjs[song].lyrics

\* C4: once a song's lyrics are set (by a fetch, a failed fetch that stored "",
\* or load_artist storing a value), every later get_song_lyrics on it returns
\* the stored value unchanged and requests nothing; so over any sequence of
\* get_song_lyrics / get_artist_lyrics calls at most one web request is made
\* per song.
LyricsCache == []AtMostOneRequest /\ [][CacheHit]_vars

\* get_song_lyrics returned lyrics that load_artist had stored: the process has
\* requested no page for the song
LyricsCacheWitness ==
    /\ ret.op = "get_song_lyrics"
    /\ ret.hit
    /\ ret.value # None
    /\ requests[songObjs[ret.song].id] = 0
    /\ \E id_ \in SongIds : requests[id_] = 1

\* C5: when a step of get_song_lyrics fails, the call returns "" with
\* song.lyrics set to "" and raises nothing; so get_artist_lyrics runs to the
\* end of artist.songs and artist.featured_on, and afterwards every song of
\* both lists has lyrics set, whichever songs failed.
FailureContained ==
    /\ (ret.op = "get_song_lyrics" /\ ret.failed) =>
           /\ ~ret.raised
           /\ ret.value = Str(<<>>)
           /\ songObjs[ret.song].lyrics = Str(<<>>)
    /\ ret.op = "get_artist_lyrics" =>
           /\ ~ret.raised
           /\ \A i \in DOMAIN Chain(ret.artist) :
                  songObjs[Chain(ret.artist)[i]].lyrics # None
           /\ \A song \in ret.failed : songObjs[song].lyrics = Str(<<>>)

\* get_artist_lyrics has run over an artist with both lists filled; the fetch of
\* its first song failed and a later song got its lyrics
FailureContainedWitness ==
    /\ ret.op = "get_artist_lyrics"
    /\ artistObjs[ret.artist].songs # <<>>
    /\ artistObjs[ret.artist].featured_on # <<>>
    /\ Head(Chain(ret.artist)) \in ret.failed
    /\ \E i \in DOMAIN Chain(ret.artist) :
           songObjs[Chain(ret.artist)[i]].lyrics.text # <<>>

\* C6: normalising a text that the normalisation of get_song_lyrics produced
\* gives the same text, also for texts with runs of three or more newlines.
NormalizeIdempotent ==
    (ret.op = "NormalizeLyrics" /\ ret.again) => ret.value = ret.text

----------------------------------------------------------------------------
(* Claims about the resolver *)

Named(artist) == artist.name = ret.name

\* a song of the page or the result of a hit credits the name
Credited(song) ==
    \/ Named(song.primary_artist)
    \/ \E k \in DOMAIN song.featured_artists : Named(song.featured_artists[k])

PageNamesNobody == \A i \in DOMAIN ret.songs : ~Credited(ret.songs[i])

\* C7: when no song of the page credits the canonical name as primary or
\* featured artist (an empty page included), get_artist_id makes the search
\* before any failure and returns the id of the first hit whose primary artist
\* has the canonical name.
ResolverFallback ==
    (ret.op = "get_artist_id" /\ PageNamesNobody) =>
        /\ ret.searched
        /\ \A i \in DOMAIN ret.hits :
               (/\ Named(ret.hits[i].result.primary_artist)
                /\ \A k \in 1..(i - 1) : ~Named(ret.hits[k].result.primary_artist))
                   => /\ ret.kind = "return"
                      /\ ret.value = ret.hits[i].result.primary_artist.id

\* C8: when no song of the page and no hit of the search credits the canonical
\* name, get_artist_id fails with the ValueError and with no other error, also
\* when the page has no song and the search has a hit.
ResolverFailure ==
    (/\ ret.op = "get_artist_id"
     /\ PageNamesNobody
     /\ \A i \in DOMAIN ret.hits : ~Credited(ret.hits[i].result))
        => ret.kind = "ValueError"

\* C9: in the fallback each hit is matched against its own featured artists:
\* when no earlier hit credits the canonical name and a hit's own featured
\* artists include one of that name, that artist's id is returned.
FallbackOwnFeatured ==
    (ret.op = "get_artist_id" /\ PageNamesNobody) =>
        \A i \in DOMAIN ret.hits :
            LET hit == ret.hits[i].result
                f == FirstNamed(hit.featured_artists, ret.name)
            IN  (/\ \A k \in 1..(i - 1) : ~Credited(ret.hits[k].result)
                 /\ ~Named(hit.primary_artist)
                 /\ f # 0)
                    => /\ ret.kind = "return"
                       /\ ret.value = hit.featured_artists[f].id

====
